---- MODULE Spec2Model ----
(***************************************************************************)
(* Model of blezero (src/lib/blezero.py) and of the loop that drives it    *)
(* (src/demo.py): the Sensor data log with autorange and statistics, and   *)
(* the Device find / connect / service / per-sensor read cycle.            *)
(*                                                                         *)
(* Numbers.  Decoded readings are floats raw/100.0 or raw/10.0.  They are  *)
(* kept here exactly, as integer counts of hundredths (Den = 100), so that *)
(* value/2, value*2, round(x, -1) and the average are exact.  lower and    *)
(* upper are the Python ints the code stores, in whole units.              *)
(***************************************************************************)
EXTENDS Integers, Sequences, FiniteSets, TLC

----------------------------------------------------------------------------
(* Bounds of the model *)

\* largest number of samples (capacity) of a sensor under SensorSpec
MaxSamples == 3
\* largest number of Sensor.update calls on the sensor under SensorSpec
MaxWrites == 4
\* number of iterations of the while-True loop of main() that are explored
MaxIterations == 3

----------------------------------------------------------------------------
(* Constants of the program *)

TEMPERATURE == 10862          \* 0x2A6E
PRESSURE == 10861             \* 0x2A6D
HUMIDITY == 10863             \* 0x2A6F
IRRADIANCE == 10871           \* 0x2A77

\* hundredths per unit: the representation of the decoded floats
Den == 100

\* None of Python, as a log entry: outside every decoded int16 value
None == 999999

\* payloads a characteristic read can deliver, as byte sequences: the
\* little-endian int16 values -500, 0, 200 and 2500
Payloads == {<<12, 254>>, <<0, 0>>, <<200, 0>>, <<196, 9>>}

\* a payload that is not two bytes long
Malformed == <<7>>

----------------------------------------------------------------------------
(* Decoders: struct.unpack("<h", data)[0] / 100.0 or / 10.0 *)

\* struct.unpack("<h", data)[0] for a two-byte data
struct_unpack_h(data) ==
    LET u == data[1] + 256 * data[2]
    IN  IF u >= 32768 THEN u - 65536 ELSE u

_decode_temperature(data) == struct_unpack_h(data) * (Den \div 100)

_decode_light(data) == struct_unpack_h(data) * (Den \div 10)

_decode_pressure(data) == struct_unpack_h(data) * (Den \div 10)

_decode_humidity(data) == struct_unpack_h(data) * (Den \div 100)

DECODERS(uuid, data) ==
    CASE uuid = TEMPERATURE -> _decode_temperature(data)
      [] uuid = PRESSURE    -> _decode_pressure(data)
      [] uuid = HUMIDITY    -> _decode_humidity(data)
      [] uuid = IRRADIANCE  -> _decode_light(data)

----------------------------------------------------------------------------
(* Helpers of the arithmetic *)

Min2(a, b) == IF b < a THEN b ELSE a

Max2(a, b) == IF b > a THEN b ELSE a

\* int(round(num/den, -1)): the nearest multiple of 10, ties to the even one
Round10(num, den) ==
    LET k == num \div (10 * den)
        r == num - k * 10 * den
    IN  IF 2 * r < 10 * den THEN 10 * k
        ELSE IF 2 * r > 10 * den THEN 10 * (k + 1)
        ELSE IF k % 2 = 0 THEN 10 * k ELSE 10 * (k + 1)

\* the entries of dlog that are not None
Present(dlog) == {dlog[i] : i \in {j \in 1..Len(dlog) : dlog[j] # None}}

SetMin(S) == CHOOSE x \in S : \A y \in S : x <= y

SetMax(S) == CHOOSE x \in S : \A y \in S : x >= y

----------------------------------------------------------------------------
(* class Sensor *)

\* Sensor.__init__
SensorInit(samples, uuid, auto, drange) ==
    [ _length   |-> samples,
      uuid      |-> uuid,
      dlog      |-> [i \in 1..samples |-> None],
      dptr      |-> 0,
      lower     |-> IF auto THEN 0 ELSE drange[1],
      upper     |-> IF auto THEN 1 ELSE drange[2],
      autorange |-> auto ]

\* Sensor.length: dlog.index(None), or _length when no entry is None
length(s) ==
    IF \E i \in 1..Len(s.dlog) : s.dlog[i] = None
    THEN (CHOOSE i \in 1..Len(s.dlog) :
              /\ s.dlog[i] = None
              /\ \A j \in 1..(i - 1) : s.dlog[j] # None) - 1
    ELSE s._length

\* lower of the autorange branch, from the log before the write (hundredths
\* are compared in two-hundredths so that value/2 is exact)
AutoLower(dlog, value) ==
    LET present == IF Present(dlog) = {} THEN 0 ELSE SetMin(Present(dlog))
    IN  Round10(Min2(2 * present, value), 2 * Den)

\* upper of the autorange branch, from the log before the write
AutoUpper(dlog, value) ==
    LET present == IF Present(dlog) = {} THEN 1 * Den ELSE SetMax(Present(dlog))
    IN  Round10(Max2(present, value * 2), Den)

\* the for loop of Sensor.update that moves every entry one slot to the front
ShiftLog(dlog) ==
    [i \in 1..Len(dlog) |-> IF i < Len(dlog) THEN dlog[i + 1] ELSE dlog[i]]

\* the slip of storing the value without ever advancing dptr
SensorUpdate_NoAdvance(s, data) ==
    LET value  == DECODERS(s.uuid, data)
        lo     == IF s.autorange THEN AutoLower(s.dlog, value) ELSE s.lower
        up     == IF s.autorange THEN AutoUpper(s.dlog, value) ELSE s.upper
        stored == [s.dlog EXCEPT ![s.dptr + 1] = value]
    IN  [s EXCEPT !.lower = lo, !.upper = up, !.dlog = stored]

\* Sensor.update once the read has returned two bytes: decode, autorange,
\* store
SensorUpdate(s, data) ==
    LET value  == DECODERS(s.uuid, data)
        lo     == IF s.autorange THEN AutoLower(s.dlog, value) ELSE s.lower
        up     == IF s.autorange THEN AutoUpper(s.dlog, value) ELSE s.upper
        stored == [s.dlog EXCEPT ![s.dptr + 1] = value]
    IN  IF s.dptr = s._length - 1
        THEN [s EXCEPT !.lower = lo, !.upper = up, !.dlog = ShiftLog(stored)]
        ELSE [s EXCEPT !.lower = lo, !.upper = up, !.dlog = stored,
                       !.dptr = s.dptr + 1]

\* the for loop of Sensor.min_max_avg, from index i (0-based) on
RECURSIVE MinMaxLoop(_, _, _, _, _, _)
MinMaxLoop(dlog, i, n, v, max_reading, min_reading) ==
    IF i >= n THEN [v |-> v, max |-> max_reading, min |-> min_reading]
    ELSE IF dlog[i + 1] > max_reading
         THEN MinMaxLoop(dlog, i + 1, n, v + dlog[i + 1], dlog[i + 1], min_reading)
         ELSE IF dlog[i + 1] < min_reading
              THEN MinMaxLoop(dlog, i + 1, n, v + dlog[i + 1], max_reading, dlog[i + 1])
              ELSE MinMaxLoop(dlog, i + 1, n, v + dlog[i + 1], max_reading, min_reading)

\* Sensor.min_max_avg: the int 0, or the tuple (v / dptr, max, min); the
\* average is kept as the fraction num/den of hundredths
min_max_avg(s) ==
    IF s.dptr = 0
    THEN [shape |-> "int", val |-> 0]
    ELSE LET r == MinMaxLoop(s.dlog, 0, s.dptr, 0, 0, s.dlog[1])
         IN  [shape |-> "tuple",
              avg   |-> [num |-> r.v, den |-> s.dptr],
              max   |-> r.max,
              min   |-> r.min]

\* the slip of scaling the slot without the check for None
get_scaled_NoNoneCheck(s, index, scale) ==
    LET value   == s.dlog[index + 1]
        clamped == Max2(s.lower * Den, Min2(s.upper * Den, value))
    IN  IF s.upper - s.lower = 0
        THEN [exc |-> "ZeroDivisionError"]
        ELSE [exc |-> "none",
              num |-> (clamped - s.lower * Den) * scale,
              den |-> (s.upper - s.lower) * Den]

\* Sensor.get_scaled for a 0-based index inside the log: the exception it
\* raises, or the quotient (value - lower) * scale / (upper - lower) as a
\* fraction of hundredths
get_scaled(s, index, scale) ==
    LET value   == s.dlog[index + 1]
        clamped == Max2(s.lower * Den, Min2(s.upper * Den, value))
    IN  IF value = None
        THEN [exc |-> "ValueError"]
        ELSE IF s.upper - s.lower = 0
             THEN [exc |-> "ZeroDivisionError"]
             ELSE [exc |-> "none",
                   num |-> (clamped - s.lower * Den) * scale,
                   den |-> (s.upper - s.lower) * Den]

\* the element list[index] of Python for an index that may be negative
PyItem(list, index) ==
    IF index < 0 THEN list[Len(list) + index + 1] ELSE list[index + 1]

\* the slip of reading the slot at the write cursor instead of the one before
get_current_reading_AtCursor(s) ==
    LET current_val == PyItem(s.dlog, s.dptr)
    IN  IF current_val = None
        THEN [kind |-> "No reading yet"]
        ELSE [kind |-> "value", val |-> current_val]

\* Sensor.get_current_reading: dlog[dptr - 1], or the string "No reading yet"
\* when that entry is None
get_current_reading(s) ==
    LET current_val == PyItem(s.dlog, s.dptr - 1)
    IN  IF current_val = None
        THEN [kind |-> "No reading yet"]
        ELSE [kind |-> "value", val |-> current_val]

\* width and height of the display of demo.py, and the size of one graph
WIDTH == 640

HEIGHT == 480

GW == (WIDTH \div 2) - 4

GH == (HEIGHT \div 4) - 4

\* Sensor.draw_graph, as the exception that leaves it ("none" when it
\* returns): the bars call get_scaled, the captions unpack min_max_avg()
draw_graph(s, w, h, bar_width, bar_margin) ==
    LET bar_spacing   == bar_width + bar_margin
        end_reading   == length(s)
        start_reading == Max2(0, length(s) - (w \div bar_spacing))
        bars          == {get_scaled(s, i, h - 30) : i \in start_reading..(end_reading - 1)}
    IN  IF \E b \in bars : b.exc # "none"
        THEN (CHOOSE e \in {b.exc : b \in bars} : e # "none")
        ELSE IF min_max_avg(s).shape # "tuple"
             THEN "TypeError"
             ELSE "none"

----------------------------------------------------------------------------
(* State *)

VARIABLES
    sensor,     \* SensorSpec: the Sensor that is exercised on its own
    written,    \* SensorSpec: the decoded values of its update calls, in order
    ret,        \* SensorSpec: the last call on the sensor and what it returned
    sensors,    \* sensors[d][k]: the k-th Sensor of the d-th Device
    device,     \* device[d]: Device.device, None or the address found
    live,       \* live[d]: connections of d that are connected and not released
    pc,         \* where main() and the Device.update it awaits stand
    cur,        \* index in devices of the for loop of main()
    iter,       \* iterations of the while loop of main() completed
    si,         \* index in self.sensors of the for loop of Device.update
    chr,        \* the characteristic of the current sensor
    exc,        \* the exception that left main(), "none" while it runs
    printed,    \* what the current Device.update has printed
    cycle       \* record of the current (or last) Device.update call

sensorVars == <<sensor, written, ret>>

deviceVars == <<sensors, device, live, pc, cur, iter, si, chr, exc, printed, cycle>>

vars == <<sensor, written, ret, sensors, device, live, pc, cur, iter, si, chr,
          exc, printed, cycle>>

----------------------------------------------------------------------------
(* The sensor on its own: Sensor.update and the queries, called directly *)

\* the Sensor objects that are exercised: every capacity up to MaxSamples,
\* two decoders, autorange or the fixed range (20, 40) of demo.py
SensorConfigs ==
    {SensorInit(n, u, a, <<20, 40>>) :
        n \in 1..MaxSamples, u \in {TEMPERATURE, PRESSURE}, a \in BOOLEAN}

\* await sensor.update(characteristic) with a read that returns data
Update(data) ==
    /\ Len(written) < MaxWrites
    /\ sensor' = SensorUpdate(sensor, data)
    /\ written' = Append(written, DECODERS(sensor.uuid, data))
    /\ ret' = [op |-> "update"]
    /\ UNCHANGED deviceVars

\* sensor.min_max_avg()
MinMaxAvg ==
    /\ ret.op # "min_max_avg"
    /\ ret' = [op |-> "min_max_avg", val |-> min_max_avg(sensor)]
    /\ UNCHANGED <<sensor, written>>
    /\ UNCHANGED deviceVars

\* sensor.draw_graph(graphics, x, y, GW, GH, ...) as refresh_display calls it
DrawGraph ==
    /\ ret.op # "draw_graph"
    /\ ret' = [op |-> "draw_graph", exc |-> draw_graph(sensor, GW, GH, 4, 2)]
    /\ UNCHANGED <<sensor, written>>
    /\ UNCHANGED deviceVars

\* the scale arguments of get_scaled that are tried: 0, the default 1.0 and
\* the h - 30 that draw_graph passes
Scales == {0, 1, GH - 30}

\* sensor.get_scaled(index, scale) for an index of the log
GetScaled(index, scale) ==
    /\ index < sensor._length
    /\ ret' = [op |-> "get_scaled", index |-> index, scale |-> scale,
               val |-> get_scaled(sensor, index, scale)]
    /\ UNCHANGED <<sensor, written>>
    /\ UNCHANGED deviceVars

\* sensor.get_current_reading()
GetCurrentReading ==
    /\ ret.op # "get_current_reading"
    /\ ret' = [op |-> "get_current_reading", val |-> get_current_reading(sensor)]
    /\ UNCHANGED <<sensor, written>>
    /\ UNCHANGED deviceVars

----------------------------------------------------------------------------
(* class Device and main() of demo.py *)

\* number of Device objects in devices
NumDevices == 2

\* number of Sensor objects of each Device that are modelled
NumSensors == 2

\* samples of each Sensor of demo.py, 160 there
Samples == 2

\* the Sensor arguments of each Device of demo.py, in order
DemoSensors ==
    << SensorInit(Samples, IRRADIANCE, FALSE, <<0, 150>>),
       SensorInit(Samples, TEMPERATURE, FALSE, <<20, 40>>),
       SensorInit(Samples, PRESSURE, FALSE, <<1000, 1100>>),
       SensorInit(Samples, HUMIDITY, FALSE, <<0, 100>>) >>

\* payloads the peripherals deliver in a session
SessionPayloads == {<<200, 0>>, <<196, 9>>}

\* Device.device before the scan has matched
NoDevice == "None"

\* result.device of the advertisement that matches devices[d]
Address(d) == "addr"

NoCycle ==
    [ dev |-> 0, start |-> <<>>, steps |-> {}, resolved |-> {}, recorded |-> {},
      timedout |-> {}, acquired |-> 0, released |-> 0, live0 |-> 0,
      yields |-> 0, failures |-> {}, outcome |-> "none" ]

\* Device.__init__ for every device, and main() about to start
InitDevices ==
    /\ sensors = [d \in 1..NumDevices |-> [k \in 1..NumSensors |-> DemoSensors[k]]]
    /\ device = [d \in 1..NumDevices |-> NoDevice]
    /\ live = [d \in 1..NumDevices |-> 0]
    /\ pc = "main_for"
    /\ cur = 1
    /\ iter = 0
    /\ si = 1
    /\ chr = "none"
    /\ exc = "none"
    /\ printed = {}
    /\ cycle = NoCycle

\* return from Device.update: main() goes on to the next device
Return(cyc) ==
    /\ pc' = "main_for"
    /\ cur' = cur + 1
    /\ cycle' = [cyc EXCEPT !.outcome = "returned"]
    /\ exc' = exc

\* an exception leaves Device.update; main() does not catch it, so it leaves
\* main() and asyncio.run as well
Raise(e, cyc) ==
    /\ pc' = "crashed"
    /\ cur' = cur
    /\ cycle' = [cyc EXCEPT !.outcome = "raised"]
    /\ exc' = e

\* main(): await device.update() for the next device of the for loop
StartUpdate ==
    /\ pc = "main_for"
    /\ cur <= NumDevices
    /\ pc' = "find"
    /\ printed' = {"Updating"}
    /\ cycle' = [NoCycle EXCEPT !.dev = cur, !.start = sensors[cur],
                                !.live0 = live[cur], !.outcome = "running"]
    /\ UNCHANGED <<sensors, device, live, cur, iter, si, chr, exc>>
    /\ UNCHANGED sensorVars

\* Device.find with self.device set: no scan
FindCached ==
    /\ pc = "find"
    /\ device[cur] # NoDevice
    /\ pc' = "connect"
    /\ UNCHANGED <<sensors, device, live, cur, iter, si, chr, exc, printed, cycle>>
    /\ UNCHANGED sensorVars

\* Device.find with self.device None: the scan ends with a match or without
FindScan(match) ==
    /\ pc = "find"
    /\ device[cur] = NoDevice
    /\ pc' = "connect"
    /\ device' = IF match THEN [device EXCEPT ![cur] = Address(cur)] ELSE device
    /\ cycle' = [cycle EXCEPT !.steps = @ \cup {"scan"},
                              !.failures = IF match THEN @
                                           ELSE @ \cup {"discovery_miss"}]
    /\ UNCHANGED <<sensors, live, cur, iter, si, chr, exc, printed>>
    /\ UNCHANGED sensorVars

\* device.connect() on the None that find returned: AttributeError, which
\* except asyncio.TimeoutError does not catch
ConnectNone ==
    /\ pc = "connect"
    /\ device[cur] = NoDevice
    /\ Raise("AttributeError", cycle)
    /\ UNCHANGED <<sensors, device, live, iter, si, chr, printed>>
    /\ UNCHANGED sensorVars

\* the slip of going on to the service after the timeout of connect
Connect_FallThrough(outcome) ==
    /\ pc = "connect"
    /\ device[cur] # NoDevice
    /\ IF outcome = "ok"
       THEN /\ live' = [live EXCEPT ![cur] = @ + 1]
            /\ printed' = printed \cup {"Connected..."}
            /\ cycle' = [cycle EXCEPT !.steps = @ \cup {"connect"},
                                      !.acquired = @ + 1]
       ELSE /\ live' = live
            /\ printed' = printed \cup {"Timeout during connection"}
            /\ cycle' = [cycle EXCEPT !.steps = @ \cup {"connect"},
                                      !.failures = @ \cup {"connect_timeout"}]
    /\ pc' = "service"
    /\ UNCHANGED <<sensors, device, cur, exc, iter, si, chr>>
    /\ UNCHANGED sensorVars

\* the slip of forgetting the device found when connect times out
Connect_Evict(outcome) ==
    /\ pc = "connect"
    /\ device[cur] # NoDevice
    /\ IF outcome = "ok"
       THEN /\ live' = [live EXCEPT ![cur] = @ + 1]
            /\ printed' = printed \cup {"Connected..."}
            /\ pc' = "service"
            /\ cycle' = [cycle EXCEPT !.steps = @ \cup {"connect"},
                                      !.acquired = @ + 1]
            /\ UNCHANGED <<cur, exc, device>>
       ELSE /\ live' = live
            /\ device' = [device EXCEPT ![cur] = NoDevice]
            /\ printed' = printed \cup {"Timeout during connection"}
            /\ Return([cycle EXCEPT !.steps = @ \cup {"connect"},
                                    !.failures = @ \cup {"connect_timeout"}])
    /\ UNCHANGED <<sensors, iter, si, chr>>
    /\ UNCHANGED sensorVars

\* connection = await device.connect(): connected, or asyncio.TimeoutError
Connect(outcome) ==
    /\ pc = "connect"
    /\ device[cur] # NoDevice
    /\ IF outcome = "ok"
       THEN /\ live' = [live EXCEPT ![cur] = @ + 1]
            /\ printed' = printed \cup {"Connected..."}
            /\ pc' = "service"
            /\ cycle' = [cycle EXCEPT !.steps = @ \cup {"connect"},
                                      !.acquired = @ + 1]
            /\ UNCHANGED <<cur, exc>>
       ELSE /\ live' = live
            /\ printed' = printed \cup {"Timeout during connection"}
            /\ Return([cycle EXCEPT !.steps = @ \cup {"connect"},
                                    !.failures = @ \cup {"connect_timeout"}])
    /\ UNCHANGED <<sensors, device, iter, si, chr>>
    /\ UNCHANGED sensorVars

\* service = await connection.service(ENVIRONMENTAL_SENSING): the service,
\* None, or asyncio.TimeoutError from the discovery
Service(outcome) ==
    /\ pc = "service"
    /\ LET cyc == [cycle EXCEPT !.steps = @ \cup {"service"}]
       IN  CASE outcome = "found" ->
                  /\ pc' = "characteristic"
                  /\ si' = 1
                  /\ cycle' = cyc
                  /\ UNCHANGED <<cur, exc, printed>>
             [] outcome = "absent" ->
                  /\ printed' = printed \cup {"Could not find ENVIRONMENTAL_SENSING service"}
                  /\ Return([cyc EXCEPT !.failures = @ \cup {"service_absent"}])
                  /\ si' = si
             [] outcome = "timeout" ->
                  /\ Raise("TimeoutError", [cyc EXCEPT !.failures = @ \cup {"service_timeout"}])
                  /\ UNCHANGED <<si, printed>>
    /\ UNCHANGED <<sensors, device, live, iter, chr>>
    /\ UNCHANGED sensorVars

\* the end of one pass of the for loop of Device.update: the next sensor,
\* or the exit of async with connection (disconnect) and the return
LoopTail(cyc) ==
    IF si < NumSensors
    THEN /\ si' = si + 1
         /\ pc' = "characteristic"
         /\ cycle' = cyc
         /\ UNCHANGED <<live, cur, exc>>
    ELSE /\ si' = si
         /\ live' = [live EXCEPT ![cur] = @ - 1]
         /\ Return([cyc EXCEPT !.released = @ + 1])

\* an exception inside async with connection: __aexit__ disconnects, then
\* the exception goes on
RaiseInWith(e, cyc) ==
    /\ live' = [live EXCEPT ![cur] = @ - 1]
    /\ Raise(e, [cyc EXCEPT !.released = @ + 1])

\* characteristic = await service.characteristic(sensor.uuid): the
\* characteristic, None when the service has none, or asyncio.TimeoutError
Characteristic(outcome) ==
    /\ pc = "characteristic"
    /\ LET cyc == [cycle EXCEPT !.steps = @ \cup {"characteristic"},
                                !.resolved = @ \cup {si}]
       IN  IF outcome = "timeout"
           THEN /\ printed' = printed \cup {"Timeout discovering services/characteristics"}
                /\ chr' = chr
                /\ LoopTail([cyc EXCEPT !.failures = @ \cup {"characteristic_timeout"},
                                        !.timedout = @ \cup {si}])
           ELSE /\ printed' = printed \cup {"Update"}
                /\ chr' = IF outcome = "ok" THEN "characteristic" ELSE "None"
                /\ pc' = "sensor_update"
                /\ cycle' = IF outcome = "ok" THEN cyc
                            ELSE [cyc EXCEPT !.failures = @ \cup {"characteristic_absent"}]
                /\ UNCHANGED <<si, live, cur, exc>>
    /\ UNCHANGED <<sensors, device, iter>>
    /\ UNCHANGED sensorVars

\* await sensor.update(characteristic) with characteristic None:
\* characteristic.read raises AttributeError
SensorUpdateNone ==
    /\ pc = "sensor_update"
    /\ chr = "None"
    /\ RaiseInWith("AttributeError", cycle)
    /\ UNCHANGED <<sensors, device, iter, si, chr, printed>>
    /\ UNCHANGED sensorVars

\* await sensor.update(characteristic): the read times out
SensorUpdateTimeout ==
    /\ pc = "sensor_update"
    /\ chr # "None"
    /\ RaiseInWith("TimeoutError",
                   [cycle EXCEPT !.steps = @ \cup {"read"},
                                 !.failures = @ \cup {"read_timeout"}])
    /\ UNCHANGED <<sensors, device, iter, si, chr, printed>>
    /\ UNCHANGED sensorVars

\* await sensor.update(characteristic): the read returns data; struct.unpack
\* raises when data is not two bytes long
SensorUpdateRead(data) ==
    /\ pc = "sensor_update"
    /\ chr # "None"
    /\ IF Len(data) # 2
       THEN /\ RaiseInWith("ValueError",
                           [cycle EXCEPT !.steps = @ \cup {"read"},
                                         !.failures = @ \cup {"malformed"}])
            /\ UNCHANGED <<sensors, si>>
       ELSE /\ sensors' = [sensors EXCEPT ![cur][si] = SensorUpdate(@, data)]
            /\ pc' = "sleep"
            /\ cycle' = [cycle EXCEPT !.steps = @ \cup {"read"},
                                      !.recorded = @ \cup {si}]
            /\ UNCHANGED <<si, live, cur, exc>>
    /\ UNCHANGED <<device, iter, chr, printed>>
    /\ UNCHANGED sensorVars

\* await asyncio.sleep_ms(10), then the end of the pass
Sleep ==
    /\ pc = "sleep"
    /\ LoopTail([cycle EXCEPT !.yields = @ + 1])
    /\ UNCHANGED <<sensors, device, iter, chr, printed>>
    /\ UNCHANGED sensorVars

\* the exception of the first draw_graph call of refresh_display that raises
RefreshDisplayExc ==
    LET raising == {p \in (1..NumDevices) \X (1..NumSensors) :
                       draw_graph(sensors[p[1]][p[2]], GW, GH, 4, 2) # "none"}
        first   == CHOOSE p \in raising :
                       \A q \in raising : \/ p[1] < q[1]
                                          \/ (p[1] = q[1] /\ p[2] <= q[2])
    IN  IF raising = {} THEN "none"
        ELSE draw_graph(sensors[first[1]][first[2]], GW, GH, 4, 2)

\* main(): the for loop is over; await refresh_display()
RefreshDisplay ==
    /\ pc = "main_for"
    /\ cur > NumDevices
    /\ IF RefreshDisplayExc = "none"
       THEN pc' = "main_sleep" /\ exc' = exc
       ELSE pc' = "crashed" /\ exc' = RefreshDisplayExc
    /\ UNCHANGED <<sensors, device, live, cur, iter, si, chr, printed, cycle>>
    /\ UNCHANGED sensorVars

\* main(): await asyncio.sleep_ms(1000), then the next iteration of while True
MainSleep ==
    /\ pc = "main_sleep"
    /\ iter + 1 < MaxIterations
    /\ iter' = iter + 1
    /\ cur' = 1
    /\ pc' = "main_for"
    /\ UNCHANGED <<sensors, device, live, si, chr, exc, printed, cycle>>
    /\ UNCHANGED sensorVars

----------------------------------------------------------------------------
(* Specifications *)

\* the program: main() of demo.py drives the devices
Init ==
    /\ InitDevices
    /\ sensor = SensorInit(1, TEMPERATURE, TRUE, <<0, 1>>)
    /\ written = <<>>
    /\ ret = [op |-> "none"]

Next ==
    \/ StartUpdate
    \/ FindCached
    \/ \E match \in BOOLEAN : FindScan(match)
    \/ ConnectNone
    \/ \E outcome \in {"ok", "timeout"} : Connect(outcome)
    \/ \E outcome \in {"found", "absent", "timeout"} : Service(outcome)
    \/ \E outcome \in {"ok", "absent", "timeout"} : Characteristic(outcome)
    \/ SensorUpdateNone
    \/ SensorUpdateTimeout
    \/ \E data \in SessionPayloads \cup {Malformed} : SensorUpdateRead(data)
    \/ Sleep
    \/ RefreshDisplay
    \/ MainSleep

Spec == Init /\ [][Next]_vars

\* one Sensor, constructed with any of SensorConfigs and called directly
SensorSpecInit ==
    /\ InitDevices
    /\ sensor \in SensorConfigs
    /\ written = <<>>
    /\ ret = [op |-> "none"]

SensorNext ==
    \/ \E data \in Payloads : Update(data)
    \/ MinMaxAvg
    \/ DrawGraph
    \/ \E index \in 0..(MaxSamples - 1), scale \in Scales : GetScaled(index, scale)
    \/ GetCurrentReading

SensorSpec == SensorSpecInit /\ [][SensorNext]_vars

----------------------------------------------------------------------------
(* Properties *)

\* a Device.update call has ended, by a return or by an exception
CycleEnded == cycle.outcome \in {"returned", "raised"}

RECURSIVE SumSeq(_)
SumSeq(q) == IF q = <<>> THEN 0 ELSE Head(q) + SumSeq(Tail(q))

\* the populated slots of the sensor's log, in log order
Populated(s) == SubSeq(s.dlog, 1, length(s))

\* C1: once at least capacity values have been recorded, length is the
\* capacity and the log is exactly the capacity most recent values, oldest
\* first, each once.
C1_LogKeepsMostRecent ==
    Len(written) >= sensor._length =>
        /\ length(sensor) = sensor._length
        /\ sensor.dlog = SubSeq(written, Len(written) - sensor._length + 1,
                                Len(written))

\* C2: a Device.update call in which connect succeeded has released the
\* connection by the time it ends, whatever the way it ends.
C2_ReleasedOnEveryExit ==
    (CycleEnded /\ cycle.acquired >= 1) => cycle.released = cycle.acquired

\* C3: in a Device.update call that got to the sensors, a failure on one
\* sensor does not keep a later sensor from being handled: when the call
\* ends, the characteristic of every sensor has been asked for.
C3_ChannelFailuresIsolated ==
    (CycleEnded /\ cycle.resolved # {}) => cycle.resolved = 1..NumSensors

\* C4: a Device.update call whose scan found no device ends by returning
\* with the failure reported, without a connect, service, characteristic or
\* read step and with every sensor of the device as it was.
C4_DiscoveryMissEndsCycle ==
    (CycleEnded /\ "discovery_miss" \in cycle.failures) =>
        /\ cycle.outcome = "returned"
        /\ cycle.steps \subseteq {"scan"}
        /\ sensors[cycle.dev] = cycle.start

\* C5: no transport failure inside Device.update reaches main(): the call
\* returns, so that main() goes on with the next device and the next
\* iteration.
C5_FailuresNeverPropagate ==
    cycle.failures # {} => cycle.outcome # "raised"

\* C6: a device never has more than one live connection, and none is live
\* when a Device.update call is about to connect.
C6_AtMostOneLiveConnection ==
    /\ \A d \in 1..NumDevices : live[d] <= 1
    /\ (pc = "connect" /\ device[cur] # NoDevice) => live[cur] = 0

\* C7: after one or more updates, min_max_avg returns (average, maximum,
\* minimum) of exactly the populated slots: the largest and the smallest
\* populated value and their sum divided by length.
C7_StatisticsOverPopulated ==
    (ret.op = "min_max_avg" /\ Len(written) >= 1) =>
        /\ ret.val.shape = "tuple"
        /\ ret.val.max = SetMax(Present(sensor.dlog))
        /\ ret.val.min = SetMin(Present(sensor.dlog))
        /\ ret.val.avg.num * length(sensor)
               = SumSeq(Populated(sensor)) * ret.val.avg.den

\* C8: with no update yet, min_max_avg returns the tuple (0, 0, 0), which
\* its caller draw_graph unpacks without an error.
C8_EmptyStatisticsSentinel ==
    /\ (ret.op = "min_max_avg" /\ written = <<>>) =>
           /\ ret.val.shape = "tuple"
           /\ ret.val.avg.num = 0
           /\ ret.val.max = 0
           /\ ret.val.min = 0
    /\ (ret.op = "draw_graph" /\ written = <<>>) => ret.exc = "none"

\* C9: after one or more updates, for any capacity, min_max_avg returns a
\* tuple with minimum <= average <= maximum and minimum <= x <= maximum for
\* every populated x.
C9_StatisticsOrdered ==
    (ret.op = "min_max_avg" /\ Len(written) >= 1) =>
        /\ ret.val.shape = "tuple"
        /\ ret.val.min * ret.val.avg.den <= ret.val.avg.num
        /\ ret.val.avg.num <= ret.val.max * ret.val.avg.den
        /\ \A x \in Present(sensor.dlog) : ret.val.min <= x /\ x <= ret.val.max

\* C10: with autorange, lower < upper after every update.
C10_AutorangeLowerBelowUpper ==
    (sensor.autorange /\ Len(written) >= 1) => sensor.lower < sensor.upper

\* C11: get_scaled of a populated slot, for any scale >= 0, raises nothing
\* and returns a result in [0, scale], also for a value outside
\* [lower, upper].
C11_ScaledWithinScale ==
    (ret.op = "get_scaled" /\ sensor.dlog[ret.index + 1] # None) =>
        /\ ret.val.exc = "none"
        /\ 0 <= ret.val.num
        /\ ret.val.num <= ret.scale * ret.val.den

\* C13: while fewer values than the capacity have been recorded, length is
\* their number, the first slots hold them in the order of recording and
\* the other slots are None.
C13_PartialLogInOrder ==
    Len(written) < sensor._length =>
        /\ length(sensor) = Len(written)
        /\ \A i \in 1..Len(written) : sensor.dlog[i] = written[i]
        /\ \A i \in (Len(written) + 1)..sensor._length : sensor.dlog[i] = None

C13_Witness ==
    /\ sensor._length = 3
    /\ Len(written) = 2
    /\ written[1] # written[2]
    /\ length(sensor) = 2

\* C15: get_current_reading returns the value of the most recent update,
\* and "No reading yet" when there has been none.
C15_LatestIsMostRecent ==
    ret.op = "get_current_reading" =>
        IF written = <<>>
        THEN ret.val = [kind |-> "No reading yet"]
        ELSE ret.val = [kind |-> "value", val |-> written[Len(written)]]

C15_Witness ==
    /\ ret.op = "get_current_reading"
    /\ sensor._length = 2
    /\ Len(written) = 3
    /\ written[2] # written[3]
    /\ ret.val = [kind |-> "value", val |-> written[3]]

\* C16: get_scaled of a slot that is None raises ValueError ("Unpopulated
\* reading") and leaves the log, dptr and the bounds as they were.
C16_AbsentSlotRaises ==
    [][(ret'.op = "get_scaled" /\ sensor.dlog[ret'.index + 1] = None) =>
           (ret'.val = [exc |-> "ValueError"] /\ sensor' = sensor)]_vars

C16_Witness ==
    /\ ret.op = "get_scaled"
    /\ Len(written) = 1
    /\ ret.index = 1
    /\ sensor.dlog[2] = None
    /\ ret.val = [exc |-> "ValueError"]

\* C17: after n updates dptr is min(n, capacity), and so always equals
\* length.
C17_WriteCountSaturatesAtCapacity ==
    /\ sensor.dptr = Min2(Len(written), sensor._length)
    /\ sensor.dptr = length(sensor)

\* C20: with autorange, right after an update the range holds the value
\* just recorded: lower <= v <= upper.
C20_AutorangeContainsValue ==
    (sensor.autorange /\ ret.op = "update") =>
        /\ sensor.lower * Den <= written[Len(written)]
        /\ written[Len(written)] <= sensor.upper * Den

\* the log that gains the one entry v: appended after the populated slots,
\* the oldest dropped when every slot was populated
GainsEntry(before, v) ==
    IF length(before) < before._length
    THEN Append(Populated(before), v)
    ELSE Append(Tail(Populated(before)), v)

\* C12: in a Device.update call where connect and the service succeed, the
\* characteristic of sensor A times out and the next sensor B is read: A is
\* as it was (log, dptr, bounds), the log of B has gained exactly one entry,
\* and the connection has been released exactly once when the call ends.
C12_SkipLeavesAUntouchedBGainsOne ==
    \A a \in 1..(NumSensors - 1) :
        (CycleEnded /\ a \in cycle.timedout /\ (a + 1) \in cycle.recorded) =>
            /\ sensors[cycle.dev][a] = cycle.start[a]
            /\ \E data \in SessionPayloads :
                   Populated(sensors[cycle.dev][a + 1])
                       = GainsEntry(cycle.start[a + 1],
                                    DECODERS(cycle.start[a + 1].uuid, data))
            /\ cycle.released = 1

C18_CachedHandleKept ==
    [][\A d \in 1..NumDevices :
           device[d] # NoDevice =>
               /\ device'[d] = device[d]
               /\ (cycle'.dev = d /\ "scan" \in cycle'.steps) =>
                      (cycle.dev = d /\ "scan" \in cycle.steps)]_vars

C18_Witness ==
    /\ iter >= 1
    /\ CycleEnded
    /\ cycle.failures # {}
    /\ "scan" \notin cycle.steps
    /\ device[cycle.dev] = Address(cycle.dev)

\* C19: in a Device.update call with two or more sensors there is one
\* asyncio.sleep_ms between the handling of sensor i and of sensor i + 1,
\* whether sensor i was recorded or skipped: when the characteristic of the
\* i-th sensor is about to be asked for, i - 1 sleeps have been done.
C19_YieldAtEveryBoundary ==
    (pc = "characteristic" /\ cycle.outcome = "running") => cycle.yields = si - 1

====
